---- MODULE Spec2Model ----
(***************************************************************************)
(* A model of the layout-card scripts: the fit-to-box text policy of       *)
(* text-fit.js (fitText, isOverflowing, enableFitText), driven by the      *)
(* browser's event loop (microtasks, ResizeObserver, document.fonts).      *)
(*                                                                         *)
(* FitSpec  steps through single fitText calls, one loop iteration at a    *)
(*          time, for bounded options and element layouts.                 *)
(* Spec     is the activation lifecycle of enableFitText; each handler     *)
(*          runs fitText to completion in one step.                        *)
(* LayoutSpec is enableLayoutPolicy of layout-policy.js on one container.  *)
(* FlipSpec is enableFlipCards of flip-cards.js on a small document tree.  *)
(***************************************************************************)
EXTENDS Integers, Sequences, FiniteSets, TLC

(***************************************************************************)
(* Bounds of the model.                                                    *)
(***************************************************************************)
\* Font sizes 1..MaxSize are the ones an element of FitSpec may fit at.
MaxSize == 7
\* fitText calls made in a row on one element in FitSpec.
MaxCalls == 2
\* Font size the stylesheet gives an element with no inline font-size.
InheritedPx == 16
\* Visible (client) extent of an element's box, both axes.
BoxPx == 100

(***************************************************************************)
(* JavaScript values.  Numbers are integers; NaN and undefined, and the    *)
(* empty inline style, are values outside the range of every size.         *)
(***************************************************************************)
NaN == -1000
Undefined == -2000
Unset == -1

DefaultMinPx == 12
DefaultMaxPx == 28

\* a <= b on JavaScript numbers: false when either side is NaN.
JsLeq(a, b) == a # NaN /\ b # NaN /\ a <= b

(***************************************************************************)
(* The element.  el.fontSize is the inline style, el.lay its layout: the   *)
(* set of font sizes at which the content fits the box, the axis on which  *)
(* it spills otherwise, and the sub-pixel slack (0 or 1 px) it shows when  *)
(* it fits.                                                                *)
(***************************************************************************)
\* el.style.fontSize = `${v}px`: an invalid value (NaNpx, a negative
\* length) is dropped by the style system and the old value stays.
SetFontSize(el, v) ==
  IF v = NaN \/ v = Undefined \/ v < 0 THEN el ELSE [el EXCEPT !.fontSize = v]

ComputedSize(el) == IF el.fontSize = Unset THEN InheritedPx ELSE el.fontSize

Fits(el) == ComputedSize(el) \in el.lay.fit

clientHeight(el) == BoxPx
clientWidth(el) == BoxPx
scrollHeight(el) ==
  IF Fits(el) THEN BoxPx + el.lay.slack
  ELSE IF el.lay.axis = "h" THEN BoxPx + 2 + ComputedSize(el) ELSE BoxPx
scrollWidth(el) ==
  IF Fits(el) THEN BoxPx + el.lay.slack
  ELSE IF el.lay.axis = "w" THEN BoxPx + 2 + ComputedSize(el) ELSE BoxPx

isOverflowing(el) ==
  LET overflowH == scrollHeight(el) - clientHeight(el) > 1
      overflowW == scrollWidth(el) - clientWidth(el) > 1
  IN  overflowH \/ overflowW

(***************************************************************************)
(* fitText, as frames: a frame holds the element and the locals of one     *)
(* call, with the number of isOverflowing calls and loop iterations made.  *)
(***************************************************************************)
OptOr(v, d) == IF v = Undefined THEN d ELSE v

\* Mutants of FitEntry.
FitEntryNoFastPath(el, opts) ==
  LET minPx == OptOr(opts.minPx, DefaultMinPx)
      maxPx == OptOr(opts.maxPx, DefaultMaxPx)
      el1 == SetFontSize(el, maxPx)
  IN  [el |-> el1, minPx |-> minPx, maxPx |-> maxPx, lo |-> minPx, hi |-> maxPx,
       best |-> minPx, measures |-> 1, iters |-> 0, pc |-> "loop"]

FitEntryBestZero(el, opts) ==
  LET minPx == OptOr(opts.minPx, DefaultMinPx)
      maxPx == OptOr(opts.maxPx, DefaultMaxPx)
      el1 == SetFontSize(el, maxPx)
  IN  IF isOverflowing(el1) = FALSE
      THEN [el |-> el1, minPx |-> minPx, maxPx |-> maxPx, lo |-> Undefined,
            hi |-> Undefined, best |-> Undefined, measures |-> 1, iters |-> 0,
            pc |-> "done"]
      ELSE [el |-> el1, minPx |-> minPx, maxPx |-> maxPx, lo |-> minPx,
            hi |-> maxPx, best |-> 0, measures |-> 1, iters |-> 0, pc |-> "loop"]

FitEntryNoReset(el, opts) ==
  LET minPx == OptOr(opts.minPx, DefaultMinPx)
      maxPx == OptOr(opts.maxPx, DefaultMaxPx)
      el1 == IF el.fontSize = Unset THEN SetFontSize(el, maxPx) ELSE el
  IN  IF isOverflowing(el1) = FALSE
      THEN [el |-> el1, minPx |-> minPx, maxPx |-> maxPx, lo |-> Undefined,
            hi |-> Undefined, best |-> Undefined, measures |-> 1, iters |-> 0,
            pc |-> "done"]
      ELSE [el |-> el1, minPx |-> minPx, maxPx |-> maxPx, lo |-> minPx,
            hi |-> maxPx, best |-> minPx, measures |-> 1, iters |-> 0,
            pc |-> "loop"]

\* Lines 29-40: the defaults, the reset to maxPx, the fast path, the locals.
FitEntry(el, opts) ==
  LET minPx == OptOr(opts.minPx, DefaultMinPx)
      maxPx == OptOr(opts.maxPx, DefaultMaxPx)
      el1 == SetFontSize(el, maxPx)
  IN  IF isOverflowing(el1) = FALSE
      THEN [el |-> el1, minPx |-> minPx, maxPx |-> maxPx, lo |-> Undefined,
            hi |-> Undefined, best |-> Undefined, measures |-> 1, iters |-> 0,
            pc |-> "done"]
      ELSE [el |-> el1, minPx |-> minPx, maxPx |-> maxPx, lo |-> minPx,
            hi |-> maxPx, best |-> minPx, measures |-> 1, iters |-> 0,
            pc |-> "loop"]

\* Mutants of LoopStep.
LoopStepNoBest(f) ==
  LET mid == (f.lo + f.hi) \div 2
      el1 == SetFontSize(f.el, mid)
  IN  IF isOverflowing(el1)
      THEN [f EXCEPT !.el = el1, !.hi = mid - 1,
                     !.measures = @ + 1, !.iters = @ + 1]
      ELSE [f EXCEPT !.el = el1, !.lo = mid + 1,
                     !.measures = @ + 1, !.iters = @ + 1]

LoopStepLinear(f) ==
  LET mid == f.hi
      el1 == SetFontSize(f.el, mid)
  IN  IF isOverflowing(el1)
      THEN [f EXCEPT !.el = el1, !.hi = mid - 1,
                     !.measures = @ + 1, !.iters = @ + 1]
      ELSE [f EXCEPT !.el = el1, !.best = mid, !.lo = mid + 1,
                     !.measures = @ + 1, !.iters = @ + 1]

LoopStepInverted(f) ==
  LET mid == (f.lo + f.hi) \div 2
      el1 == SetFontSize(f.el, mid)
  IN  IF isOverflowing(el1)
      THEN [f EXCEPT !.el = el1, !.best = mid, !.hi = mid - 1,
                     !.measures = @ + 1, !.iters = @ + 1]
      ELSE [f EXCEPT !.el = el1, !.lo = mid + 1,
                     !.measures = @ + 1, !.iters = @ + 1]

LoopStepKeepsMid(f) ==
  LET mid == (f.lo + f.hi) \div 2
      el1 == SetFontSize(f.el, mid)
  IN  IF isOverflowing(el1)
      THEN [f EXCEPT !.el = el1, !.hi = mid,
                     !.measures = @ + 1, !.iters = @ + 1]
      ELSE [f EXCEPT !.el = el1, !.best = mid, !.lo = mid + 1,
                     !.measures = @ + 1, !.iters = @ + 1]

\* Lines 43-51: one iteration of the while loop (its guard is LoopGuard).
LoopStep(f) ==
  LET mid == (f.lo + f.hi) \div 2
      el1 == SetFontSize(f.el, mid)
  IN  IF isOverflowing(el1)
      THEN [f EXCEPT !.el = el1, !.hi = mid - 1,
                     !.measures = @ + 1, !.iters = @ + 1]
      ELSE [f EXCEPT !.el = el1, !.best = mid, !.lo = mid + 1,
                     !.measures = @ + 1, !.iters = @ + 1]

\* Line 42: while (lo <= hi).
LoopGuard(f) == JsLeq(f.lo, f.hi)

\* Line 54: the final write of best.
FitExit(f) == [f EXCEPT !.el = SetFontSize(f.el, f.best), !.pc = "done"]

RECURSIVE SearchLoop(_)
SearchLoop(f) == IF LoopGuard(f) THEN SearchLoop(LoopStep(f)) ELSE FitExit(f)

\* A whole call of fitText(el, opts): the frame it ends in.
fitText(el, opts) ==
  LET f == FitEntry(el, opts)
  IN  IF f.pc = "done" THEN f ELSE SearchLoop(f)

(***************************************************************************)
(* enableFitText: the configuration attributes.  A string is a sequence    *)
(* of one-character strings; getAttribute gives null for an absent         *)
(* attribute.                                                              *)
(***************************************************************************)
Absent == [present |-> FALSE, text |-> <<>>]
Attr(t) == [present |-> TRUE, text |-> t]

Digits == <<"0", "1", "2", "3", "4", "5", "6", "7", "8", "9">>
IsDigit(c) == \E i \in 1 .. 10 : Digits[i] = c
DigitVal(c) == (CHOOSE i \in 1 .. 10 : Digits[i] = c) - 1

RECURSIVE SkipSpace(_)
SkipSpace(t) ==
  IF t # <<>> /\ Head(t) = " " THEN SkipSpace(Tail(t)) ELSE t

\* The value of the longest prefix of digits of t, read after acc.
RECURSIVE ReadDigits(_, _)
ReadDigits(t, acc) ==
  IF t # <<>> /\ IsDigit(Head(t))
  THEN ReadDigits(Tail(t), 10 * acc + DigitVal(Head(t)))
  ELSE acc

\* parseInt(t, 10): leading blanks, a sign, then digits; NaN without a digit.
parseInt(t) ==
  LET u == SkipSpace(t)
      signed == u # <<>> /\ Head(u) \in {"+", "-"}
      d == IF signed THEN Tail(u) ELSE u
  IN  IF d = <<>> \/ ~IsDigit(Head(d)) THEN NaN
      ELSE IF signed /\ Head(u) = "-" THEN 0 - ReadDigits(d, 0)
      ELSE ReadDigits(d, 0)

\* a || d on an attribute value: null and "" are falsy.
OrDefault(a, d) == IF a.present /\ a.text # <<>> THEN a.text ELSE d

\* Mutant of ReadBounds: the two attributes exchanged.
ReadBoundsSwapped(a) ==
  [minPx |-> parseInt(OrDefault(a.max, <<"1", "2">>)),
   maxPx |-> parseInt(OrDefault(a.min, <<"2", "8">>))]

\* Lines 80-81: the bounds one element's callbacks close over.
ReadBounds(a) ==
  [minPx |-> parseInt(OrDefault(a.min, <<"1", "2">>)),
   maxPx |-> parseInt(OrDefault(a.max, <<"2", "8">>))]

(***************************************************************************)
(* layout-policy.js: the column policy.                                    *)
(***************************************************************************)
Max(a, b) == IF a >= b THEN a ELSE b

\* Mutant of chooseColumns: the second column comes at 480 px.
chooseColumnsEarly(width) ==
  IF width < 480 THEN 1
  ELSE IF width < 900 THEN 2
  ELSE IF width < 1200 THEN 3
  ELSE IF width < 1600 THEN 4
  ELSE 5

\* Lines 125-131.
chooseColumns(width) ==
  IF width < 520 THEN 1
  ELSE IF width < 900 THEN 2
  ELSE IF width < 1200 THEN 3
  ELSE IF width < 1600 THEN 4
  ELSE 5

MinCardPx == 240
DefaultGapPx == 16

\* Mutant of computeCardMin: a gap counted for every column.
computeCardMinGapPerColumn(width, cols, gapPx) ==
  LET totalGaps == gapPx * Max(0, cols)
      raw == (width - totalGaps) \div cols
  IN  Max(raw, MinCardPx)

\* Lines 142-147; \div rounds down, as Math.floor of the quotient does.
computeCardMin(width, cols, gapPx) ==
  LET totalGaps == gapPx * Max(0, cols - 1)
      raw == (width - totalGaps) \div cols
  IN  Max(raw, MinCardPx)

(***************************************************************************)
(* State.                                                                  *)
(***************************************************************************)
VARIABLES
  \* FitSpec: one element and the frame of the fitText call on it
  el, opts, minPx, maxPx, lo, hi, best, pc, measures, iters,
  \* FitSpec: calls made, and the font size and measurements before the
  \* call in progress
  calls, sizeBefore, prevMeasures,
  \* Spec: the document: each target's attributes and element
  attrs, dom,
  \* Spec: "loaded" before enableFitText is called, "active" after
  phase,
  \* Spec: the task that called enableFitText is still running
  script,
  \* Spec: per target, the bounds its callbacks close over
  bound,
  \* Spec: per target, whether its ResizeObserver observes it, and whether
  \* a notification is due
  observing, roActive,
  \* Spec: the microtask queue
  microtasks,
  \* Spec: document.fonts ("absent", "loading", "ready", "failed") and the
  \* targets whose then-callback waits on document.fonts.ready
  fonts, reactions,
  \* Spec: calls of the cleanup function made
  disposed,
  \* Spec: the last step taken, and per target its last fitText run
  last, lastRun,
  \* Spec: the first fitText run of each target, in the order they ran
  firstFit,
  \* LayoutSpec: the container passed to enableLayoutPolicy and opts.gapPx
  container, gapOpt,
  \* LayoutSpec: "loaded", "active" or "threw"; the gapPx closed over
  layPhase, gapPx,
  \* LayoutSpec: the ResizeObserver observes; a notification is due
  layObserving, layDue,
  \* LayoutSpec: --card-min and --_policy-cols on the container, the width
  \* of the last notification and the notifications delivered
  cardMin, policyCols, noteW, notes,
  \* FlipSpec: the document: each node's parent (0 is the document), the
  \* nodes matching "[data-card], .card-node" and those matching flipSelector
  parentOf, isCard, isFlip,
  \* FlipSpec: options.allowCardClick and the value closed over
  allowOpt, allowCardClick,
  \* FlipSpec: "loaded", "active" or "disposed"; the event types listened to
  flipPhase, listeners,
  \* FlipSpec: the cards carrying is-flipped, and the last event dispatched
  flipped, lastEv

fitVars == <<el, opts, minPx, maxPx, lo, hi, best, pc, measures, iters,
             calls, sizeBefore, prevMeasures>>

lifeVars == <<attrs, dom, phase, script, bound, observing, roActive,
              microtasks, fonts, reactions, disposed, last, lastRun,
              firstFit>>

layoutVars == <<container, gapOpt, layPhase, gapPx, layObserving, layDue,
                cardMin, policyCols, noteW, notes>>

flipVars == <<parentOf, isCard, isFlip, allowOpt, allowCardClick, flipPhase,
              listeners, flipped, lastEv>>

vars == <<fitVars, lifeVars, layoutVars, flipVars>>

(***************************************************************************)
(* FitSpec: fitText, step by step.                                         *)
(***************************************************************************)
OptValues == (1 .. MaxSize) \cup {Undefined}

FitLayouts ==
  { [fit |-> F, axis |-> a, slack |-> d] :
      F \in SUBSET (1 .. MaxSize), a \in {"h", "w"}, d \in 0 .. 1 }

Frame ==
  [el |-> el, minPx |-> minPx, maxPx |-> maxPx, lo |-> lo, hi |-> hi,
   best |-> best, measures |-> measures, iters |-> iters, pc |-> pc]

SetFrame(f) ==
  /\ el' = f.el
  /\ minPx' = f.minPx
  /\ maxPx' = f.maxPx
  /\ lo' = f.lo
  /\ hi' = f.hi
  /\ best' = f.best
  /\ measures' = f.measures
  /\ iters' = f.iters
  /\ pc' = f.pc

\* The layout variables outside LayoutSpec: no container bound.
LayoutIdle ==
  /\ container = [isElement |-> FALSE, width |-> 0]
  /\ gapOpt = Undefined
  /\ layPhase = "none"
  /\ gapPx = Undefined
  /\ layObserving = FALSE
  /\ layDue = FALSE
  /\ cardMin = Unset
  /\ policyCols = Unset
  /\ noteW = Unset
  /\ notes = 0

\* The flip variables outside FlipSpec: no document, nothing registered.
FlipIdle ==
  /\ parentOf = <<>>
  /\ isCard = {}
  /\ isFlip = {}
  /\ allowOpt = "undefined"
  /\ allowCardClick = FALSE
  /\ flipPhase = "none"
  /\ listeners = {}
  /\ flipped = {}
  /\ lastEv = [type |-> "none", target |-> 0, key |-> "", prevented |-> FALSE]

\* The lifecycle variables in FitSpec: no document, nothing activated.
LifeIdle ==
  /\ attrs = <<>>
  /\ dom = <<>>
  /\ phase = "none"
  /\ script = FALSE
  /\ bound = <<>>
  /\ observing = <<>>
  /\ roActive = <<>>
  /\ microtasks = <<>>
  /\ fonts = "absent"
  /\ reactions = <<>>
  /\ disposed = 0
  /\ last = [kind |-> "none", el |-> 0]
  /\ lastRun = <<>>
  /\ firstFit = <<>>

FitInit ==
  /\ el \in { [fontSize |-> Unset, lay |-> l] : l \in FitLayouts }
  /\ opts \in [minPx : OptValues, maxPx : OptValues]
  /\ minPx = Undefined
  /\ maxPx = Undefined
  /\ lo = Undefined
  /\ hi = Undefined
  /\ best = Undefined
  /\ pc = "idle"
  /\ measures = 0
  /\ iters = 0
  /\ calls = 0
  /\ sizeBefore = Unset
  /\ prevMeasures = 0
  /\ LifeIdle
  /\ LayoutIdle
  /\ FlipIdle

\* fitText(el, opts) is called: lines 28-40.
FitCall ==
  /\ pc \in {"idle", "done"}
  /\ calls < MaxCalls
  /\ calls' = calls + 1
  /\ sizeBefore' = el.fontSize
  /\ prevMeasures' = measures
  /\ SetFrame(FitEntry(el, opts))
  /\ UNCHANGED <<opts, lifeVars, layoutVars, flipVars>>

\* One iteration of the loop: lines 42-52.
FitLoop ==
  /\ pc = "loop"
  /\ LoopGuard(Frame)
  /\ SetFrame(LoopStep(Frame))
  /\ UNCHANGED <<opts, calls, sizeBefore, prevMeasures, lifeVars, layoutVars, flipVars>>

\* The loop ends and best is written: line 54.
FitFinish ==
  /\ pc = "loop"
  /\ ~LoopGuard(Frame)
  /\ SetFrame(FitExit(Frame))
  /\ UNCHANGED <<opts, calls, sizeBefore, prevMeasures, lifeVars, layoutVars, flipVars>>

FitNext == FitCall \/ FitLoop \/ FitFinish

FitSpec == FitInit /\ [][FitNext]_vars

\* fitText runs to completion once called: a started loop iteration and the
\* final write are never postponed for ever.
FitFairSpec == FitSpec /\ WF_vars(FitLoop) /\ WF_vars(FitFinish)

(***************************************************************************)
(* Spec: enableFitText and the triggers it binds, on the browser's event   *)
(* loop.  A task runs to completion; microtasks run when the running task  *)
(* has ended and before any other task; every handler runs fitText whole.  *)
(***************************************************************************)
\* The elements the selector matches, in document order: two, so that the
\* order of the callbacks and their independence show.
targets == <<1, 2>>
Elems == { targets[i] : i \in 1 .. Len(targets) }

\* data-fit-min / data-fit-max as authored on a target.
Configs ==
  { [min |-> Absent, max |-> Absent],
    [min |-> Attr(<<"1", "0">>), max |-> Attr(<<"2", "0">>)],
    [min |-> Attr(<<"a", "b", "c">>), max |-> Absent],
    [min |-> Attr(<<>>), max |-> Attr(<<"p", "x">>)] }

\* Layouts a target may have: content that fits up to 9, 14 or 30 px.
LifeLayouts ==
  { [fit |-> 1 .. 9, axis |-> "w", slack |-> 0],
    [fit |-> 1 .. 14, axis |-> "h", slack |-> 1],
    [fit |-> 1 .. 30, axis |-> "h", slack |-> 0] }

FitIdle ==
  /\ el = [fontSize |-> Unset, lay |-> [fit |-> {}, axis |-> "h", slack |-> 0]]
  /\ opts = [minPx |-> Undefined, maxPx |-> Undefined]
  /\ minPx = Undefined
  /\ maxPx = Undefined
  /\ lo = Undefined
  /\ hi = Undefined
  /\ best = Undefined
  /\ pc = "idle"
  /\ measures = 0
  /\ iters = 0
  /\ calls = 0
  /\ sizeBefore = Unset
  /\ prevMeasures = 0

Init ==
  /\ FitIdle
  /\ LayoutIdle
  /\ FlipIdle
  /\ attrs \in [Elems -> Configs]
  /\ dom \in [Elems -> { [fontSize |-> Unset, lay |-> l] : l \in LifeLayouts }]
  /\ phase = "loaded"
  /\ script = TRUE
  /\ bound = [e \in Elems |-> [minPx |-> Undefined, maxPx |-> Undefined]]
  /\ observing = [e \in Elems |-> FALSE]
  /\ roActive = [e \in Elems |-> FALSE]
  /\ microtasks = <<>>
  /\ fonts \in {"absent", "loading", "ready", "failed"}
  /\ reactions = <<>>
  /\ disposed = 0
  /\ last = [kind |-> "load", el |-> 0]
  /\ lastRun = [e \in Elems |-> [by |-> "none", measures |-> 0, lay |-> dom[e].lay]]
  /\ firstFit = <<>>

Task(k, e) == [kind |-> k, el |-> e]

\* Mutant of QueuedFor: the fit callback attached for either outcome of
\* document.fonts.ready.
QueuedForSettled(e) ==
  <<Task("initial", e)>> \o
  (IF fonts \in {"ready", "failed"} THEN <<Task("fonts", e)>> ELSE <<>>)

\* Lines 84 and 91-93 for one target: the microtasks queued while
\* enableFitText runs.  then() on a settled promise queues its reaction at
\* once; a rejection passes then() and is taken by catch(() => {}).
QueuedFor(e) ==
  <<Task("initial", e)>> \o
  (IF fonts = "ready" THEN <<Task("fonts", e)>>
   ELSE IF fonts = "failed" THEN <<Task("swallow", e)>>
   ELSE <<>>)

\* Mutant of QueuedAll: the targets taken last to first.
RECURSIVE QueuedAllReversed(_)
QueuedAllReversed(ts) ==
  IF ts = <<>> THEN <<>> ELSE QueuedAllReversed(Tail(ts)) \o QueuedFor(Head(ts))

RECURSIVE QueuedAll(_)
QueuedAll(ts) ==
  IF ts = <<>> THEN <<>> ELSE QueuedFor(Head(ts)) \o QueuedAll(Tail(ts))

\* enableFitText(selector), lines 76-99, called by the running script.  A
\* new ResizeObserver reports each observed element once, at the next
\* rendering.
Enable ==
  /\ phase = "loaded"
  /\ script
  /\ phase' = "active"
  /\ bound' = [e \in Elems |-> ReadBounds(attrs[e])]
  /\ microtasks' = microtasks \o QueuedAll(targets)
  /\ observing' = [e \in Elems |-> TRUE]
  /\ roActive' = [e \in Elems |-> TRUE]
  /\ reactions' = IF fonts = "loading" THEN targets ELSE reactions
  /\ last' = Task("enable", 0)
  /\ UNCHANGED <<attrs, dom, script, fonts, disposed, lastRun,
                 firstFit, fitVars,
                 layoutVars, flipVars>>

\* The script that called enableFitText returns to the event loop.
ScriptEnd ==
  /\ phase = "active"
  /\ script
  /\ script' = FALSE
  /\ last' = Task("scriptEnd", 0)
  /\ UNCHANGED <<attrs, dom, phase, bound, observing, roActive, microtasks,
                 fonts, reactions, disposed, lastRun,
                 firstFit, fitVars,
                 layoutVars, flipVars>>

\* () => fitText(el, { minPx, maxPx }): the body of all three callbacks.
RunFit(e, by) ==
  LET f == fitText(dom[e], bound[e])
  IN  /\ dom' = [dom EXCEPT ![e] = f.el]
      /\ lastRun' = [lastRun EXCEPT ![e] =
                       [by |-> by, measures |-> f.measures, lay |-> dom[e].lay]]
      /\ last' = Task(by, e)
      /\ firstFit' = IF lastRun[e].by = "none"
                     THEN Append(firstFit, Task(by, e)) ELSE firstFit

\* Line 84: the deferred first fit.
InitialFit ==
  /\ ~script
  /\ microtasks # <<>>
  /\ Head(microtasks).kind = "initial"
  /\ RunFit(Head(microtasks).el, "initial")
  /\ microtasks' = Tail(microtasks)
  /\ UNCHANGED <<attrs, phase, script, bound, observing, roActive, fonts,
                 reactions, disposed, fitVars,
                 layoutVars, flipVars>>

\* Line 92: the then-callback of document.fonts.ready.
FontsFit ==
  /\ ~script
  /\ microtasks # <<>>
  /\ Head(microtasks).kind = "fonts"
  /\ RunFit(Head(microtasks).el, "fonts")
  /\ microtasks' = Tail(microtasks)
  /\ UNCHANGED <<attrs, phase, script, bound, observing, roActive, fonts,
                 reactions, disposed, fitVars,
                 layoutVars, flipVars>>

\* Line 92: catch(() => {}) takes the rejection.
SwallowReject ==
  /\ ~script
  /\ microtasks # <<>>
  /\ Head(microtasks).kind = "swallow"
  /\ microtasks' = Tail(microtasks)
  /\ last' = Task("swallow", Head(microtasks).el)
  /\ UNCHANGED <<attrs, dom, phase, script, bound, observing, roActive, fonts,
                 reactions, disposed, lastRun,
                 firstFit, fitVars,
                 layoutVars, flipVars>>

\* The event loop is between tasks.
Idle == ~script /\ microtasks = <<>>

\* The box of target e changes size and its content is laid out as l; an
\* observing ResizeObserver has a notification due.
SizeChange(e, l) ==
  /\ phase = "active"
  /\ Idle
  /\ dom' = [dom EXCEPT ![e].lay = l]
  /\ roActive' = [roActive EXCEPT ![e] = observing[e]]
  /\ last' = Task("sizeChange", e)
  /\ UNCHANGED <<attrs, phase, script, bound, observing, microtasks, fonts,
                 reactions, disposed, lastRun,
                 firstFit, fitVars,
                 layoutVars, flipVars>>

\* Line 87: the ResizeObserver callback of target e.
ResizeCallback(e) ==
  /\ Idle
  /\ observing[e]
  /\ roActive[e]
  /\ RunFit(e, "resize")
  /\ roActive' = [roActive EXCEPT ![e] = FALSE]
  /\ UNCHANGED <<attrs, phase, script, bound, observing, microtasks, fonts,
                 reactions, disposed, fitVars,
                 layoutVars, flipVars>>

RECURSIVE TasksFor(_, _)
TasksFor(k, es) ==
  IF es = <<>> THEN <<>> ELSE <<Task(k, Head(es))>> \o TasksFor(k, Tail(es))

\* document.fonts.ready resolves: the waiting then-callbacks are queued.
\* The loaded fonts change the text metrics: target layouts become ls.
FontsLoaded(ls) ==
  /\ phase = "active"
  /\ Idle
  /\ fonts = "loading"
  /\ fonts' = "ready"
  /\ dom' = [e \in Elems |-> [dom[e] EXCEPT !.lay = ls[e]]]
  /\ microtasks' = TasksFor("fonts", reactions)
  /\ reactions' = <<>>
  /\ last' = Task("fontsLoaded", 0)
  /\ UNCHANGED <<attrs, phase, script, bound, observing, roActive, disposed,
                 lastRun,
                 firstFit, fitVars,
                 layoutVars, flipVars>>

\* document.fonts.ready rejects: each chain ends in its catch.
FontsFailed ==
  /\ phase = "active"
  /\ Idle
  /\ fonts = "loading"
  /\ fonts' = "failed"
  /\ microtasks' = TasksFor("swallow", reactions)
  /\ reactions' = <<>>
  /\ last' = Task("fontsFailed", 0)
  /\ UNCHANGED <<attrs, dom, phase, script, bound, observing, roActive,
                 disposed, lastRun,
                 firstFit, fitVars,
                 layoutVars, flipVars>>

\* Calls of the cleanup function the model follows.
MaxDispose == 2

\* Mutant of Disconnect: a disconnected observer is connected again.
DisconnectToggle(obs) == [e \in Elems |-> ~obs[e]]

\* Mutant of Disconnect: only the first observer is disconnected.
DisconnectFirst(obs) == [e \in Elems |-> IF e = targets[1] THEN FALSE ELSE obs[e]]

\* observers.forEach((ro) => ro.disconnect()) on a per-target flag.
Disconnect(obs) == [e \in Elems |-> FALSE]

\* Line 98: the cleanup function, called by the script that enabled the
\* policy before it returns, or in a later task.
Dispose ==
  /\ phase = "active"
  /\ script \/ microtasks = <<>>
  /\ disposed < MaxDispose
  /\ disposed' = disposed + 1
  /\ observing' = Disconnect(observing)
  /\ roActive' = Disconnect(roActive)
  /\ last' = Task("dispose", 0)
  /\ UNCHANGED <<attrs, dom, phase, script, bound, microtasks, fonts,
                 reactions, lastRun,
                 firstFit, fitVars,
                 layoutVars, flipVars>>

Next ==
  \/ Enable
  \/ ScriptEnd
  \/ InitialFit
  \/ FontsFit
  \/ SwallowReject
  \/ \E e \in Elems, l \in LifeLayouts : SizeChange(e, l)
  \/ \E e \in Elems : ResizeCallback(e)
  \/ \E ls \in [Elems -> LifeLayouts] : FontsLoaded(ls)
  \/ FontsFailed
  \/ Dispose

Spec == Init /\ [][Next]_vars

(***************************************************************************)
(* LayoutSpec: enableLayoutPolicy on one container.  The container starts  *)
(* at any whole width up to MaxWidth and is resized to widths around the   *)
(* policy's steps.                                                         *)
(***************************************************************************)
\* Widest container of the model.
MaxWidth == 1700
\* Notifications the model follows.
MaxNotes == 2

ResizeWidths ==
  {0} \cup { b + d : b \in {240, 520, 900, 1200, 1600}, d \in {-1, 0, 1} }

LayoutInit ==
  /\ FitIdle
  /\ LifeIdle
  /\ FlipIdle
  /\ container \in
       { [isElement |-> TRUE, width |-> w] : w \in 0 .. MaxWidth }
       \cup { [isElement |-> FALSE, width |-> 0] }
  /\ gapOpt \in {Undefined, 24}
  /\ layPhase = "loaded"
  /\ gapPx = Undefined
  /\ layObserving = FALSE
  /\ layDue = FALSE
  /\ cardMin = Unset
  /\ policyCols = Unset
  /\ noteW = Unset
  /\ notes = 0

\* enableLayoutPolicy(el, opts), lines 157-178.  A new ResizeObserver
\* reports the observed element once, at the next rendering.
EnableLayout ==
  /\ layPhase = "loaded"
  /\ gapPx' = OptOr(gapOpt, DefaultGapPx)
  /\ IF container.isElement
     THEN /\ layPhase' = "active"
          /\ layObserving' = TRUE
          /\ layDue' = TRUE
     ELSE /\ layPhase' = "threw"
          /\ UNCHANGED <<layObserving, layDue>>
  /\ UNCHANGED <<container, gapOpt, cardMin, policyCols, noteW, notes,
                 fitVars, lifeVars, flipVars>>

\* The container's content box becomes w wide.
ContainerResize(w) ==
  /\ layPhase = "active"
  /\ w # container.width
  /\ container' = [container EXCEPT !.width = w]
  /\ layDue' = layObserving
  /\ UNCHANGED <<gapOpt, layPhase, gapPx, layObserving, cardMin, policyCols,
                 noteW, notes, fitVars, lifeVars, flipVars>>

\* Lines 164-173: the ResizeObserver callback.
LayoutNotify ==
  /\ layObserving
  /\ layDue
  /\ notes < MaxNotes
  /\ LET w == container.width
         cols == chooseColumns(w)
         minPx_ == computeCardMin(w, cols, gapPx)
     IN  /\ cardMin' = minPx_
         /\ policyCols' = cols
         /\ noteW' = w
  /\ layDue' = FALSE
  /\ notes' = notes + 1
  /\ UNCHANGED <<container, gapOpt, layPhase, gapPx, layObserving,
                 fitVars, lifeVars, flipVars>>

\* Line 177: the cleanup function.
LayoutDispose ==
  /\ layPhase = "active"
  /\ layObserving
  /\ layObserving' = FALSE
  /\ layDue' = FALSE
  /\ UNCHANGED <<container, gapOpt, layPhase, gapPx, cardMin, policyCols,
                 noteW, notes, fitVars, lifeVars, flipVars>>

LayoutNext ==
  \/ EnableLayout
  \/ \E w \in ResizeWidths : ContainerResize(w)
  \/ LayoutNotify
  \/ LayoutDispose

LayoutSpec == LayoutInit /\ [][LayoutNext]_vars

(***************************************************************************)
(* FlipSpec: enableFlipCards on a document of NumNodes elements.  Node 0   *)
(* is the document itself, which is no Element.                            *)
(***************************************************************************)
\* Elements of the document.
NumNodes == 3
Nodes == 1 .. NumNodes

Keys == {"Enter", " ", "a"}

\* el.closest(selector), over the nodes matching: el or its nearest
\* matching ancestor, 0 (null) when there is none.
RECURSIVE closest(_, _)
closest(n, matching) ==
  IF n = 0 THEN 0
  ELSE IF n \in matching THEN n
  ELSE closest(parentOf[n], matching)

\* Lines 41-44.
findCard(n) == IF n = 0 THEN 0 ELSE closest(n, isCard)

\* Lines 57-59: classList.toggle("is-flipped") on the set of flipped cards.
toggle(card, fl) == IF card \in fl THEN fl \ {card} ELSE fl \cup {card}

\* Mutant of handleClick: no return after the flip control's branch.
handleClickFallsThrough(target, fl) ==
  IF target = 0 THEN fl
  ELSE LET flipControl == closest(target, isFlip)
           fl1 == IF flipControl # 0 /\ findCard(flipControl) # 0
                  THEN toggle(findCard(flipControl), fl) ELSE fl
       IN  IF allowCardClick /\ findCard(target) # 0
           THEN toggle(findCard(target), fl1) ELSE fl1

\* Lines 81-96: the flipped cards after handleClick(ev).
handleClick(target, fl) ==
  IF target = 0 THEN fl
  ELSE LET flipControl == closest(target, isFlip)
       IN  IF flipControl # 0
           THEN LET card == findCard(flipControl)
                IN  IF card # 0 THEN toggle(card, fl) ELSE fl
           ELSE IF allowCardClick
                THEN LET card == findCard(target)
                     IN  IF card # 0 THEN toggle(card, fl) ELSE fl
                ELSE fl

\* Lines 98-111: the flipped cards after handleKeydown(ev), and whether it
\* called ev.preventDefault().
handleKeydown(target, key, fl) ==
  IF key # "Enter" /\ key # " " THEN [flipped |-> fl, prevented |-> FALSE]
  ELSE IF target = 0 THEN [flipped |-> fl, prevented |-> FALSE]
  ELSE LET flipControl == closest(target, isFlip)
       IN  IF flipControl = 0 THEN [flipped |-> fl, prevented |-> FALSE]
           ELSE LET card == findCard(flipControl)
                IN  [flipped |-> IF card # 0 THEN toggle(card, fl) ELSE fl,
                     prevented |-> TRUE]

FlipInit ==
  /\ FitIdle
  /\ LifeIdle
  /\ LayoutIdle
  /\ parentOf \in { p \in [Nodes -> 0 .. NumNodes] : \A n \in Nodes : p[n] < n }
  /\ isCard \in SUBSET Nodes
  /\ isFlip \in SUBSET Nodes
  /\ allowOpt \in {"undefined", "true", "false"}
  /\ allowCardClick = FALSE
  /\ flipPhase = "loaded"
  /\ listeners = {}
  /\ flipped = {}
  /\ lastEv = [type |-> "none", target |-> 0, key |-> "", prevented |-> FALSE]

\* enableFlipCards(options), lines 75-120.
EnableFlip ==
  /\ flipPhase = "loaded"
  /\ flipPhase' = "active"
  /\ allowCardClick' = (IF allowOpt = "undefined" THEN TRUE ELSE allowOpt = "true")
  /\ listeners' = listeners \cup {"click", "keydown"}
  /\ lastEv' = [type |-> "enable", target |-> 0, key |-> "", prevented |-> FALSE]
  /\ UNCHANGED <<parentOf, isCard, isFlip, allowOpt, flipped,
                 fitVars, lifeVars, layoutVars>>

\* A click is dispatched on target t and bubbles to the document.
Click(t) ==
  /\ flipPhase # "loaded"
  /\ flipped' = IF "click" \in listeners THEN handleClick(t, flipped) ELSE flipped
  /\ lastEv' = [type |-> "click", target |-> t, key |-> "", prevented |-> FALSE]
  /\ UNCHANGED <<parentOf, isCard, isFlip, allowOpt, allowCardClick, flipPhase,
                 listeners, fitVars, lifeVars, layoutVars>>

\* A keydown of key k is dispatched on target t and bubbles to the document.
Keydown(t, k) ==
  /\ flipPhase # "loaded"
  /\ LET r == IF "keydown" \in listeners THEN handleKeydown(t, k, flipped)
              ELSE [flipped |-> flipped, prevented |-> FALSE]
     IN  /\ flipped' = r.flipped
         /\ lastEv' = [type |-> "keydown", target |-> t, key |-> k,
                       prevented |-> r.prevented]
  /\ UNCHANGED <<parentOf, isCard, isFlip, allowOpt, allowCardClick, flipPhase,
                 listeners, fitVars, lifeVars, layoutVars>>

\* Mutant of RemoveListeners: the keydown listener is left registered.
RemoveClickOnly(ls) == ls \ {"click"}

\* Lines 117-118: both removeEventListener calls.
RemoveListeners(ls) == (ls \ {"click"}) \ {"keydown"}

\* Lines 116-119: the cleanup function.
DisableFlip ==
  /\ flipPhase \in {"active", "disposed"}
  /\ lastEv.type # "disable"
  /\ flipPhase' = "disposed"
  /\ listeners' = RemoveListeners(listeners)
  /\ lastEv' = [type |-> "disable", target |-> 0, key |-> "", prevented |-> FALSE]
  /\ UNCHANGED <<parentOf, isCard, isFlip, allowOpt, allowCardClick, flipped,
                 fitVars, lifeVars, layoutVars>>

FlipNext ==
  \/ EnableFlip
  \/ \E t \in 0 .. NumNodes : Click(t)
  \/ \E t \in 0 .. NumNodes, k \in Keys : Keydown(t, k)
  \/ DisableFlip

FlipSpec == FlipInit /\ [][FlipNext]_vars

(***************************************************************************)
(* Properties of fitText (FitSpec).                                        *)
(***************************************************************************)
\* The sizes at which a threshold predicate fits: overflow(s) = (s > t).
UpTo(t) == { s \in 1 .. MaxSize : s <= t }

\* The overflow predicate is monotonic: a size that fits, fits when smaller.
Monotone == \A s \in el.lay.fit : \A r \in 1 .. s : r \in el.lay.fit

\* The element would not overflow at size s.
FitsAt(s) == ~isOverflowing(SetFontSize(el, s))

\* The call in progress returned through the fast path of line 36.
FastPath == pc = "done" /\ best = Undefined

RECURSIVE FloorLog2(_)
FloorLog2(n) == IF n <= 1 THEN 0 ELSE 1 + FloorLog2(n \div 2)

CeilLog2(n) == IF n <= 1 THEN 0 ELSE 1 + FloorLog2(n - 1)

\* C1: with minPx <= maxPx and overflow(s) = (s > t), a finished call leaves
\* the font size at t when t is in [minPx, maxPx], and at minPx when
\* t < minPx.
C1_MonotonicCorrectness ==
  (pc = "done" /\ minPx <= maxPx) =>
    \A t \in 0 .. MaxSize :
      el.lay.fit = UpTo(t) =>
        /\ (minPx <= t /\ t <= maxPx) => el.fontSize = t
        /\ t < minPx => el.fontSize = minPx

C1_Witness ==
  /\ pc = "done"
  /\ \E t \in 1 .. MaxSize :
       /\ el.lay.fit = UpTo(t)
       /\ minPx < t /\ t < maxPx
       /\ el.fontSize = t
  /\ iters >= 2

\* C2: when the element does not overflow at maxPx the loop is never
\* entered, and the call ends at exactly maxPx after one measurement.
C2_FastPath ==
  (pc # "idle" /\ FitsAt(maxPx)) =>
    /\ pc = "done"
    /\ el.fontSize = maxPx
    /\ iters = 0
    /\ measures = 1

C2_Witness ==
  /\ pc = "done"
  /\ minPx < maxPx
  /\ FitsAt(maxPx)
  /\ el.fontSize = maxPx
  /\ measures = 1

\* C3 as stated: at most ceil(log2(maxPx - minPx + 1)) + 1 measurements.
C3_CeilLogBound ==
  (pc = "done" /\ minPx <= maxPx /\ Monotone) =>
    measures <= CeilLog2(maxPx - minPx + 1) + 1

\* C3, amended: at most floor(log2(maxPx - minPx + 1)) + 2 measurements in
\* one call with minPx <= maxPx and a monotonic predicate: the fast-path
\* check, and one per iteration of a search that starts at hi = maxPx.
C3_LogarithmicCost ==
  (pc # "idle" /\ minPx <= maxPx /\ Monotone) =>
    /\ measures = iters + 1
    /\ measures <= FloorLog2(maxPx - minPx + 1) + 2

C3_Witness ==
  /\ pc = "done"
  /\ Monotone
  /\ maxPx - minPx + 1 >= 4
  /\ measures = FloorLog2(maxPx - minPx + 1) + 2

\* C4 as stated: a second call on the fitted element leaves the font size
\* as it was and makes only the fast-path measurement.
C4_SecondCallFastPathOnly ==
  (pc = "done" /\ calls >= 2) =>
    /\ el.fontSize = sizeBefore
    /\ measures = 1
    /\ iters = 0

\* C4, amended: a second call on the fitted element, geometry unchanged,
\* leaves the font size as it was and makes as many measurements as the
\* first call; it returns through the fast path exactly when the element
\* fits at maxPx, and otherwise runs the search again.
C4_Idempotence ==
  (pc = "done" /\ calls >= 2) =>
    /\ el.fontSize = sizeBefore
    /\ measures = prevMeasures
    /\ FastPath <=> FitsAt(maxPx)

C4_Witness ==
  /\ pc = "done"
  /\ calls = 2
  /\ minPx < maxPx
  /\ ~FitsAt(maxPx)
  /\ sizeBefore < maxPx
  /\ el.fontSize = sizeBefore
  /\ measures > 1

\* C7: with minPx <= maxPx and a monotonic predicate, a finished call
\* leaves a font size in [minPx, maxPx]: maxPx through the fast path, or
\* else the best of the search.
C7_BoundsRespected ==
  (pc = "done" /\ minPx <= maxPx /\ Monotone) =>
    /\ minPx <= el.fontSize /\ el.fontSize <= maxPx
    /\ FastPath => el.fontSize = maxPx
    /\ ~FastPath => el.fontSize = best

C7_Witness ==
  /\ pc = "done"
  /\ Monotone
  /\ ~FastPath
  /\ minPx < maxPx
  /\ el.lay.fit = {}
  /\ el.fontSize = minPx

\* C8 as stated: with minPx > maxPx the loop never runs and the font size
\* ends at minPx, for every overflow predicate.
C8_DegenerateAlwaysMin ==
  (pc = "done" /\ minPx > maxPx) => (iters = 0 /\ el.fontSize = minPx)

\* C8, amended: with minPx > maxPx the loop body never runs; the font size
\* ends at minPx (best unchanged) when the element overflows at maxPx, and
\* at maxPx, through the fast path, when it does not.
C8_DegenerateBounds ==
  (pc # "idle" /\ minPx > maxPx) =>
    /\ iters = 0
    /\ pc = "done" =>
         el.fontSize = (IF FitsAt(maxPx) THEN maxPx ELSE minPx)

C8_Witness ==
  /\ pc = "done"
  /\ minPx > maxPx
  /\ ~FitsAt(maxPx)
  /\ best = minPx
  /\ el.fontSize = minPx

(***************************************************************************)
(* Properties of enableFitText (Spec).                                     *)
(***************************************************************************)
\* The kinds of step that run fitText.
FitKinds == {"initial", "resize", "fonts"}

\* The attribute is present, not empty, and parseInt finds no number in it.
NonNumeric(a) == a.present /\ a.text # <<>> /\ parseInt(a.text) = NaN

\* The attributes of a target with each unparseable one taken away.
AsIfAbsent(a) ==
  [min |-> IF NonNumeric(a.min) THEN Absent ELSE a.min,
   max |-> IF NonNumeric(a.max) THEN Absent ELSE a.max]

\* C5: once the cleanup function has been called no step runs fitText,
\* whatever its trigger, and no target's font size changes.
C5_DisposalStopsAllTriggers ==
  [][disposed > 0 =>
       /\ last'.kind \notin FitKinds
       /\ \A e \in Elems : dom'[e].fontSize = dom[e].fontSize]_vars

\* C6: a target whose data-fit-min or data-fit-max is present but holds no
\* number gets the bounds, and after a fit the font size, it would have with
\* that attribute absent (12 and 28), and the size is a valid pixel value.
C6_InvalidFallsBackToDefaults ==
  phase = "active" =>
    \A e \in Elems :
      LET asDefault == ReadBounds(AsIfAbsent(attrs[e]))
          before == [fontSize |-> Unset, lay |-> lastRun[e].lay]
      IN  /\ bound[e] = asDefault
          /\ lastRun[e].by # "none" =>
               /\ dom[e].fontSize = fitText(before, asDefault).el.fontSize
               /\ dom[e].fontSize >= 0

\* C9: a target with data-fit-min="10" and data-fit-max="20" whose content
\* overflows exactly above 14 px is at 14 px after the deferred first run,
\* which made at most 5 measurements.
C9_TriggerWiring ==
  \A e \in Elems :
    ( /\ attrs[e] = [min |-> Attr(<<"1", "0">>), max |-> Attr(<<"2", "0">>)]
      /\ lastRun[e].by = "initial"
      /\ lastRun[e].lay.fit = 1 .. 14 ) =>
    /\ dom[e].fontSize = 14
    /\ lastRun[e].measures <= 5

C9_Witness ==
  \E e \in Elems :
    /\ attrs[e] = [min |-> Attr(<<"1", "0">>), max |-> Attr(<<"2", "0">>)]
    /\ lastRun[e].by = "initial"
    /\ lastRun[e].lay.fit = 1 .. 14
    /\ bound[e] = [minPx |-> 10, maxPx |-> 20]
    /\ dom[e].fontSize = 14
    /\ lastRun[e].measures = 5

\* C10: once the cleanup function has been called no ResizeObserver
\* callback runs, and a size change of a target leaves its font size as it
\* was and no notification due.
C10_NoResizeAfterDisposal ==
  [][disposed > 0 =>
       /\ last'.kind # "resize"
       /\ last'.kind = "sizeChange" =>
            /\ dom'[last'.el].fontSize = dom[last'.el].fontSize
            /\ ~roActive'[last'.el]]_vars

\* After the cleanup a target's box changed so that a fit would have moved
\* its font size.
C10_Witness ==
  /\ disposed > 0
  /\ last.kind = "sizeChange"
  /\ lastRun[last.el].by = "resize"
  /\ dom[last.el].lay # lastRun[last.el].lay
  /\ fitText(dom[last.el], bound[last.el]).el.fontSize # dom[last.el].fontSize

\* The largest size of [b.minPx, b.maxPx] that fits layout l, or b.minPx.
LargestFit(l, b) ==
  LET fitting == { s \in b.minPx .. b.maxPx :
                     ~isOverflowing([fontSize |-> s, lay |-> l]) }
  IN  IF fitting = {} THEN b.minPx
      ELSE CHOOSE s \in fitting : \A r \in fitting : r <= s

\* C11: right after any run of fitText, whatever its trigger and whatever
\* ran before, the target is at the largest size of its bounds that fits the
\* layout it has at that run (minPx when none fits).
C11_TriggerConvergence ==
  last.kind \in FitKinds =>
    LET e == last.el
        b == ReadBounds(AsIfAbsent(attrs[e]))
    IN  dom[e].fontSize = LargestFit(lastRun[e].lay, b)

\* The same, for the targets whose attributes are absent or numeric.
C11_NumericOnly ==
  (last.kind \in FitKinds /\ AsIfAbsent(attrs[last.el]) = attrs[last.el]) =>
    /\ bound[last.el] = ReadBounds(attrs[last.el])
    /\ dom[last.el].fontSize = LargestFit(lastRun[last.el].lay, bound[last.el])

\* C12: enableFitText runs no fitText itself: until the calling script
\* returns to the event loop no target has been fitted or has a font size
\* written; each target's first fit is its deferred microtask, and the
\* first fits come in the order the targets were selected.
C12_DeferredInitialRun ==
  /\ script =>
       /\ firstFit = <<>>
       /\ \A e \in Elems : dom[e].fontSize = Unset /\ lastRun[e].by = "none"
  /\ Len(firstFit) <= Len(targets)
  /\ \A i \in 1 .. Len(firstFit) : firstFit[i] = Task("initial", targets[i])

C12_Witness ==
  /\ fonts = "ready"
  /\ firstFit = <<Task("initial", targets[1]), Task("initial", targets[2])>>
  /\ lastRun[targets[1]].by = "fonts"
  /\ lastRun[targets[2]].by = "initial"

\* C13: with document.fonts absent, or its ready promise rejected, no
\* fitText run is made or queued for the fonts signal; the steps that take
\* the rejection leave every target and its last fit as they were, and
\* enableFitText has returned normally with the other triggers bound.
C13_FontsFailureSwallowed ==
  /\ [](fonts \in {"absent", "failed"} =>
          /\ \A i \in 1 .. Len(microtasks) : microtasks[i].kind # "fonts"
          /\ \A e \in Elems : lastRun[e].by # "fonts"
          /\ reactions = <<>>
          /\ last.kind # "fonts"
          /\ last.kind = "enable" =>
               /\ phase = "active"
               /\ \A e \in Elems : observing[e] /\ roActive[e]
               /\ \A e \in Elems : \E i \in 1 .. Len(microtasks) :
                    microtasks[i] = Task("initial", e))
  /\ [][last'.kind \in {"fontsFailed", "swallow"} =>
          /\ dom' = dom
          /\ lastRun' = lastRun
          /\ observing' = observing
          /\ roActive' = roActive]_vars

\* After the rejection was taken, a size change was still answered by a fit.
C13_Witness ==
  /\ fonts = "failed"
  /\ disposed = 0
  /\ last.kind = "resize"
  /\ firstFit = <<Task("initial", targets[1]), Task("initial", targets[2])>>
  /\ bound[last.el] = [minPx |-> 10, maxPx |-> 20]
  /\ lastRun[last.el].by = "resize"
  /\ dom[last.el].fontSize = LargestFit(lastRun[last.el].lay, bound[last.el])

\* C14: a call of the cleanup function after the first leaves every
\* observer, every target and everything queued exactly as it was.
C14_DisposalIdempotent ==
  [][(disposed > 0 /\ last'.kind = "dispose") =>
       /\ disposed' = disposed + 1
       /\ observing' = observing
       /\ roActive' = roActive
       /\ dom' = dom
       /\ UNCHANGED <<bound, microtasks, fonts, reactions, lastRun, firstFit,
                      phase, script>>]_vars

\* The cleanup function was called twice, the second time with a fonts
\* callback still waiting.
C14_Witness ==
  /\ disposed = 2
  /\ last.kind = "dispose"
  /\ reactions # <<>>
  /\ \A e \in Elems : ~observing[e] /\ ~roActive[e] /\ lastRun[e].by # "none"

(***************************************************************************)
(* Properties of the layout policy (LayoutSpec).                           *)
(***************************************************************************)
\* The columns the policy states for width w.
PolicyColumns(w) ==
  CASE w < 520 -> 1
    [] 520 <= w /\ w < 900 -> 2
    [] 900 <= w /\ w < 1200 -> 3
    [] 1200 <= w /\ w < 1600 -> 4
    [] OTHER -> 5

\* r is the quotient x / c rounded down.
IsFloorOf(r, x, c) == c * r <= x /\ x < c * (r + 1)

\* C15: after any notifications --card-min is max(floor((w - gapPx *
\* max(0, cols - 1)) / cols), 240) for the width w of the last one and the
\* policy's columns for w: never below 240, whatever came before.
C15_LayoutPolicyOutput ==
  notes > 0 =>
    LET w == noteW
        cols == PolicyColumns(w)
        space == w - gapPx * (IF cols > 1 THEN cols - 1 ELSE 0)
    IN  /\ policyCols = cols
        /\ cardMin >= 240
        /\ cardMin > 240 => IsFloorOf(cardMin, space, cols)
        /\ cardMin = 240 => space < cols * 241

\* A second notification, for a width with other columns than the first.
C15_Witness ==
  /\ notes = 2
  /\ gapPx = 24
  /\ noteW = 900
  /\ policyCols = 3
  /\ cardMin = 284
  /\ ~layObserving

\* C20: with gapPx = 16 and a width w >= 240 the clamp leaves the raw value
\* and the chosen columns fit: cols * cardMin + 16 * (cols - 1) <= w; for
\* w < 240 the clamp gives 240, more than the container is wide.
C20_PolicyConsistent ==
  (notes > 0 /\ gapPx = 16) =>
    LET w == noteW
        cols == policyCols
    IN  /\ w >= 240 =>
             /\ IsFloorOf(cardMin, w - 16 * (cols - 1), cols)
             /\ cols * cardMin + 16 * (cols - 1) <= w
        /\ w < 240 =>
             /\ cardMin = 240
             /\ cardMin > w
             /\ ~IsFloorOf(cardMin, w - 16 * (cols - 1), cols)

C20_Witness ==
  /\ notes > 0
  /\ gapPx = 16
  /\ noteW = 520
  /\ policyCols = 2
  /\ cardMin = 252

(***************************************************************************)
(* Properties of enableFlipCards (FlipSpec).                               *)
(***************************************************************************)
\* The k-th ancestor of node n, 0 once the document is passed.
RECURSIVE Up(_, _)
Up(n, k) == IF n = 0 \/ k = 0 THEN n ELSE Up(parentOf[n], k - 1)

\* Node n lies inside element a (a is n or one of its ancestors).
Inside(n, a) == n # 0 /\ a # 0 /\ \E k \in 0 .. NumNodes : Up(n, k) = a

\* The elements among S that enclose n, and the innermost of them.
Enclosing(n, S) == {a \in S : Inside(n, a)}
Nearest(n, S) ==
  CHOOSE a \in Enclosing(n, S) : \A b \in Enclosing(n, S) : Inside(a, b)

\* is-flipped toggled exactly once on card c and on no other card.
ToggledOnce(c) ==
  /\ (c \in flipped') # (c \in flipped)
  /\ \A d \in Nodes \ {c} : (d \in flipped') = (d \in flipped)

\* What an activation inside a flip control does: the nearest card that
\* encloses the nearest control is toggled once; with no such card nothing is.
ControlActivated(t) ==
  LET ctl == Nearest(t, isFlip)
  IN  IF Enclosing(ctl, isCard) # {}
      THEN ToggledOnce(Nearest(ctl, isCard))
      ELSE flipped' = flipped

\* C16: while the listeners are registered, a click inside a flip control
\* toggles is-flipped exactly once on the nearest card enclosing the control;
\* a click inside a card but outside every flip control toggles that card
\* exactly once when allowCardClick is true (the default) and nothing when
\* it is false; a click outside every card changes no card.
C16_ClickToggles ==
  [][ (flipPhase = "active" /\ lastEv'.type = "click") =>
        LET t == lastEv'.target
        IN  /\ Enclosing(t, isFlip) # {} => ControlActivated(t)
            /\ (Enclosing(t, isFlip) = {} /\ Enclosing(t, isCard) # {}) =>
                 IF allowOpt # "false"
                 THEN ToggledOnce(Nearest(t, isCard))
                 ELSE flipped' = flipped
            /\ Enclosing(t, isCard) = {} => flipped' = flipped ]_vars

\* C16 witness: a click on a flip control inside a card nested in another
\* card has flipped the inner card and left the outer one alone.
C16_Witness ==
  /\ flipPhase = "active"
  /\ lastEv.type = "click"
  /\ lastEv.target \in isFlip \ isCard
  /\ parentOf[lastEv.target] \in isCard
  /\ parentOf[parentOf[lastEv.target]] \in isCard
  /\ flipped = {parentOf[lastEv.target]}

\* C17: while the listeners are registered, a keydown toggles a card only
\* when the key is Enter or Space and the target lies inside a flip control
\* (then the nearest card enclosing that control is toggled exactly once);
\* any other key, and a keydown outside every flip control, changes no card
\* whatever allowCardClick is; once the cleanup function has run, no click
\* and no keydown changes any card.
C17_KeydownAndCleanup ==
  [][ /\ (flipPhase = "active" /\ lastEv'.type = "keydown") =>
           LET t == lastEv'.target
           IN  IF lastEv'.key \in {"Enter", " "} /\ Enclosing(t, isFlip) # {}
               THEN ControlActivated(t)
               ELSE flipped' = flipped
      /\ (flipPhase = "disposed" /\ lastEv'.type \in {"click", "keydown"}) =>
           flipped' = flipped ]_vars

\* C17 witness: after the cleanup, a Space keydown on a flip control inside
\* a card has left that card flipped as it was.
C17_Witness ==
  /\ flipPhase = "disposed"
  /\ lastEv.type = "keydown"
  /\ lastEv.key = " "
  /\ lastEv.target \in isFlip
  /\ parentOf[lastEv.target] \in isCard
  /\ allowOpt = "true"
  /\ flipped = {parentOf[lastEv.target]}

(***************************************************************************)
(* Further properties of fitText (FitSpec, FitFairSpec).                   *)
(***************************************************************************)
\* C18: with minPx <= maxPx and any overflow predicate, monotonic or not, a
\* finished call that leaves a size other than minPx leaves a size at which
\* the content does not overflow; and best only ever moves to a size that
\* the same iteration has just measured as not overflowing.
C18_ResultFitsUnlessFloor ==
  /\ []((pc = "done" /\ minPx <= maxPx /\ el.fontSize # minPx) =>
          FitsAt(el.fontSize))
  /\ [][(pc = "loop" /\ best' # best) =>
          (el'.fontSize = best' /\ ~isOverflowing(el'))]_vars

\* C18 witness: a non-monotonic predicate; the call ended strictly between
\* the bounds on a size that fits, although a larger size in range fits too.
C18_Witness ==
  /\ pc = "done"
  /\ ~Monotone
  /\ minPx < el.fontSize
  /\ el.fontSize < maxPx
  /\ FitsAt(el.fontSize)
  /\ \E s \in el.lay.fit : el.fontSize < s /\ s <= maxPx

\* C19: for all bounds and every overflow predicate, each iteration of the
\* loop starts with hi - lo >= 0, strictly decreases hi - lo and writes a
\* font size within [minPx, maxPx]; and a started search always finishes.
C19_Termination ==
  /\ [][(pc = "loop" /\ iters' = iters + 1) =>
          /\ hi - lo >= 0
          /\ hi' - lo' < hi - lo
          /\ minPx <= el'.fontSize /\ el'.fontSize <= maxPx]_vars
  /\ (pc = "loop") ~> (pc = "done")

\* C19 witness: a search over a non-monotonic predicate has finished after
\* three iterations.
C19_Witness ==
  /\ pc = "done"
  /\ ~Monotone
  /\ iters = 3
  /\ hi < lo

====
